---- MODULE Spec2Model ----
(***************************************************************************)
(* TargetGenerator: the Target class of pdf_gen.py (naming, the MOA cell   *)
(* size, the grid layout and the canvas commands of create_target), the    *)
(* Flask handlers of flask_target_generator.py and the Tk handler of       *)
(* tkinter_target_generator.py.                                            *)
(*                                                                         *)
(* Representation.                                                         *)
(*  - A Python str is a sequence of one-character strings, so that         *)
(*    replace, re.sub and startswith act on characters.  An f-string that  *)
(*    no code inspects is kept as the tuple of its parts.                  *)
(*  - A Python number is a record [float, milli]: float tells int from     *)
(*    float (str(100) is "100", str(100.0) is "100.0") and milli is the    *)
(*    value in thousandths.                                                *)
(*  - A length is an integer count of millipoints (1/1000 pt, which is     *)
(*    1/72000 in).  A value the code holds in inches is held as the same   *)
(*    count, so "/ inch" and "* inch" change the label, not the count.     *)
(*    Arithmetic is exact where the code uses binary floating point, and   *)
(*    pi is 355/113.                                                       *)
(***************************************************************************)
EXTENDS Integers, Sequences, FiniteSets, TLC

VARIABLES
    target,       \* the Target object most recently constructed (with its canvas, self.pdf)
    request,      \* what the caller that constructed it submitted
    result,       \* how the last create_target call on it ended
    frame,        \* the local variables of that create_target call
    files,        \* the absolute paths of the documents on disk
    filename,     \* flask_target_generator.py: the module-level global `filename`
    response,     \* per web client, the response to its latest request
    lastCreated,  \* per web client, the filename its latest successful create_target request produced
    message       \* tkinter_target_generator.py: the message box shown last

vars == <<target, request, result, frame, files, filename, response, lastCreated, message>>

----------------------------------------------------------------------------
(* Python values *)

\* None
None == <<"None">>

\* A module-level name that no assignment has bound yet: reading it raises NameError.
Undefined == <<"NameError">>

\* the int n
IntOf(n) == [float |-> FALSE, milli |-> n * 1000]

\* the float whose value is m thousandths
FloatOf(m) == [float |-> TRUE, milli |-> m]

\* a // b on reals whose quotient is a/b, for b # 0 (Python floors towards minus infinity)
FloorDiv(a, b) == IF b > 0 THEN a \div b ELSE (-a) \div (-b)

DigitChars == <<"0", "1", "2", "3", "4", "5", "6", "7", "8", "9">>

DigitSet == {DigitChars[i] : i \in 1..10}

DigitValue(c) == (CHOOSE i \in 1..10 : DigitChars[i] = c) - 1

RECURSIVE DigitsValue(_)
DigitsValue(s) ==
    IF s = <<>> THEN 0
    ELSE 10 * DigitsValue(SubSeq(s, 1, Len(s) - 1)) + DigitValue(s[Len(s)])

RECURSIVE NatStr(_)
NatStr(n) ==
    IF n < 10 THEN <<DigitChars[n + 1]>>
    ELSE NatStr(n \div 10) \o <<DigitChars[(n % 10) + 1]>>

Pow10(k) == CASE k = 0 -> 1 [] k = 1 -> 10 [] k = 2 -> 100 [] OTHER -> 1000

\* float(s) for a decimal literal with at most three fraction digits:
\* [sign] digits [. digits] or [sign] . digits; anything else raises ValueError.
ParseFloat(s) ==
    LET signed == Len(s) > 0 /\ s[1] \in {"-", "+"}
        body == IF signed THEN Tail(s) ELSE s
        dots == {i \in 1..Len(body) : body[i] = "."}
        dot == IF dots = {} THEN Len(body) + 1 ELSE CHOOSE i \in dots : TRUE
        ip == SubSeq(body, 1, dot - 1)
        fp == SubSeq(body, dot + 1, Len(body))
        wellFormed ==
            /\ Cardinality(dots) <= 1
            /\ \A i \in 1..Len(ip) : ip[i] \in DigitSet
            /\ \A i \in 1..Len(fp) : fp[i] \in DigitSet
            /\ Len(ip) + Len(fp) > 0
            /\ Len(fp) <= 3
        magnitude == DigitsValue(ip) * 1000 + DigitsValue(fp) * Pow10(3 - Len(fp))
    IN  IF wellFormed
        THEN [ok |-> TRUE,
              value |-> FloatOf(IF signed /\ s[1] = "-" THEN -magnitude ELSE magnitude)]
        ELSE [ok |-> FALSE, value |-> FloatOf(0)]

\* str(x): an int prints its digits; a float prints the shortest decimal that
\* reads back, which always has a point and at least one fraction digit.
PyStr(x) ==
    LET m == IF x.milli < 0 THEN -x.milli ELSE x.milli
        sign == IF x.milli < 0 THEN <<"-">> ELSE <<>>
        ip == NatStr(m \div 1000)
        f == m % 1000
        fp == IF f % 100 = 0 THEN NatStr(f \div 100)
              ELSE IF f % 10 = 0 THEN <<DigitChars[(f \div 100) + 1]>> \o NatStr((f \div 10) % 10)
              ELSE <<DigitChars[(f \div 100) + 1], DigitChars[((f \div 10) % 10) + 1]>>
                   \o NatStr(f % 10)
    IN  IF x.float THEN sign \o ip \o <<".">> \o fp ELSE sign \o ip

\* int(x): truncation towards zero
PyInt(x) == IF x.milli >= 0 THEN x.milli \div 1000 ELSE -((-x.milli) \div 1000)

\* s.replace(old, new) for one-character old and new
Replace(s, old, new) == [i \in 1..Len(s) |-> IF s[i] = old THEN new ELSE s[i]]

\* s.startswith(p)
StartsWith(s, p) == Len(p) <= Len(s) /\ SubSeq(s, 1, Len(p)) = p

\* str(n) for an int n
IntStr(n) == IF n < 0 THEN <<"-">> \o NatStr(-n) ELSE NatStr(n)

\* f"{x:.3f}" for a length x: its inches (x / 72000) to the nearest thousandth
Fixed3(x) ==
    LET r == FloorDiv(2 * x + 72, 144)
        m == IF r < 0 THEN -r ELSE r
        f == m % 1000
    IN  (IF r < 0 THEN <<"-">> ELSE <<>>) \o NatStr(m \div 1000) \o <<".">>
        \o <<DigitChars[(f \div 100) + 1], DigitChars[((f \div 10) % 10) + 1],
             DigitChars[(f % 10) + 1]>>

\* kwargs.get(key, default)
Get(kwargs, key, default) == IF key \in DOMAIN kwargs THEN kwargs[key] ELSE default

\* no keyword argument
NoArg == [k \in {} |-> k]

----------------------------------------------------------------------------
(* pdf_gen.py *)

\* n points, in millipoints
Points(n) == n * 1000

\* reportlab.lib.units.inch (72 points)
inch == Points(72)

Chars_yards == <<"y", "a", "r", "d", "s", "_">>
Chars_moa_pdf == <<"m", "o", "a", ".", "p", "d", "f">>
Chars_static == <<"s", "t", "a", "t", "i", "c">>
Chars_test_pdf == <<"t", "e", "s", "t", ".", "p", "d", "f">>

\* Target._filename
Filename(self) ==
    Replace(PyStr(self.yards), ".", "-") \o Chars_yards
    \o Replace(PyStr(self.MOA), ".", "-") \o Chars_moa_pdf

\* Target._flask_filename
FlaskFilename(self) ==
    Chars_static \o <<"/">>
    \o Replace(PyStr(self.yards), ".", "-") \o Chars_yards
    \o Replace(PyStr(self.MOA), ".", "-") \o Chars_moa_pdf

\* canvas.Canvas(filename, pagesize=...): nothing is written before save()
Canvas(name, pagesize) == [filename |-> name, pagesize |-> pagesize, cmds |-> <<>>]

\* Target.__init__(**kwargs): only the keys it looks up are read
TargetInit(kwargs) ==
    LET self == [yards |-> Get(kwargs, "yards", IntOf(100)),
                 MOA |-> Get(kwargs, "MOA", FloatOf(250)),
                 diagonal_thickness |-> Get(kwargs, "diagonal_thickness", FloatOf(125)),
                 scope_adjustment_text |-> Get(kwargs, "scope_adjustment_text", TRUE),
                 page_size |-> Get(kwargs, "page_size", <<(17 * inch) \div 2, 11 * inch>>),
                 margin |-> Get(kwargs, "margin", inch \div 2),
                 flask |-> Get(kwargs, "flask", FALSE)]
        name == Get(kwargs, "filename",
                    IF self.flask THEN FlaskFilename(self) ELSE Filename(self))
    IN  [yards |-> self.yards,
         MOA |-> self.MOA,
         diagonal_thickness |-> self.diagonal_thickness,
         scope_adjustment_text |-> self.scope_adjustment_text,
         page_size |-> self.page_size,
         margin |-> self.margin,
         flask |-> self.flask,
         filename |-> name,
         pdf |-> Canvas(name, self.page_size)]

\* Target._minute_of_angle, as a length.  In inches it is
\*   yards*3*12 * radians((MOA/60)/2) * 2  =  yards * MOA * pi / 300,
\* which is yards.milli * MOA.milli * (3/12500) * pi millipoints.  The products
\* the model meets are multiples of 12500, so only pi = 355/113 rounds.
MinuteOfAngle(self) ==
    LET product == self.yards.milli * self.MOA.milli
    IN  FloorDiv(FloorDiv(product, 12500) * 3 * 355, 113)

\* one call on the canvas
Cmd(op, args) == [op |-> op, args |-> args]

\* Target._draw_centered_text.  The text is drawn at x - text_width / 2, where
\* text_width is what the canvas answers to stringWidth; the command keeps x,
\* the abscissa the text is centred on.
DrawCenteredText(text, x, y, font_size, font_color) ==
    LET text_height == font_size
    IN  <<Cmd("setFont", <<"Helvetica", font_size>>),
          Cmd("setFillColor", <<font_color>>),
          Cmd("stringWidth", <<text, "Helvetica", font_size>>),
          Cmd("drawString", <<x, y - text_height \div 3, text>>)>>

\* range(n)
Range(n) == 0..(n - 1)

\* NumRows without the step that forces the count even
NumRowsNotForcedEven(available_width, grid_size) == FloorDiv(available_width, grid_size)

\* num_rows = floor(((available_width / grid_size) // 2) * 2), for grid_size # 0:
\* q // 2 is floor(q / 2), and with q = available_width / grid_size that is
\* floor(available_width / (2 * grid_size)).
NumRows(available_width, grid_size) == FloorDiv(available_width, 2 * grid_size) * 2

\* Start without the margin
StartWithoutMargin(margin, available, grid) == (available - grid) \div 2

\* x_start and y_start: margin + (available * inch - grid * inch) / 2
Start(margin, available, grid) == margin + (available - grid) \div 2

\* HorizontalLines with one iteration too many: range(num_rows + 2)
HorizontalLinesOneMore(num_rows, x_start, y_start, grid_size, grid_width) ==
    [k \in {i + 1 : i \in Range(num_rows + 2)} |->
        LET y == y_start + (k - 1) * grid_size
        IN  Cmd("line", <<x_start, y, x_start + grid_width, y>>)]

\* the loop "for i in range(num_rows + 1)": one horizontal line per i
HorizontalLines(num_rows, x_start, y_start, grid_size, grid_width) ==
    [k \in {i + 1 : i \in Range(num_rows + 1)} |->
        LET y == y_start + (k - 1) * grid_size
        IN  Cmd("line", <<x_start, y, x_start + grid_width, y>>)]

\* the loop "for i in range(num_cols + 1)": one vertical line per i
VerticalLines(num_cols, x_start, y_start, grid_size, grid_height) ==
    [k \in {i + 1 : i \in Range(num_cols + 1)} |->
        LET x == x_start + (k - 1) * grid_size
        IN  Cmd("line", <<x, y_start, x, y_start + grid_height>>)]

\* Target.create_target: the calls made on self.pdf, how the call ends and its
\* local variables.  A grid_size of 0 raises ZeroDivisionError at the division
\* of available_width, after the caption has been drawn.
CreateTarget(self) ==
    LET grid_size == MinuteOfAngle(self)
        title == <<"Target - ", IntStr(PyInt(self.yards)), " yards - ",
                   PyStr(self.MOA), " MOA per click">>
        text == <<PyStr(self.MOA), " MOA grid (", Fixed3(grid_size), " in) at ",
                  PyStr(self.yards), " yards">>
        head ==
            <<Cmd("setTitle", <<title>>),
              Cmd("setStrokeColor", <<"black">>),
              Cmd("setLineWidth", <<Points(1)>>),
              Cmd("setLineCap", <<2>>),
              Cmd("setFillColor", <<"black">>),
              Cmd("setFont", <<"Helvetica", Points(12)>>)>>
            \o DrawCenteredText(text, self.page_size[1] \div 2, inch \div 2, Points(12), "black")
        available_width == self.page_size[1] - 2 * self.margin
        available_height == self.page_size[2] - 2 * self.margin
        num_rows == NumRows(available_width, grid_size)
        num_cols == num_rows
        grid_width == num_cols * grid_size
        grid_height == num_rows * grid_size
        x_start == Start(self.margin, available_width, grid_width)
        y_start == Start(self.margin, available_height, grid_height)
        x_center == self.margin + available_width \div 2
        y_center == self.margin + available_height \div 2
        quadrant ==
            IF self.scope_adjustment_text
            THEN <<Cmd("setStrokeColor", <<"gray">>),
                   Cmd("setLineWidth", <<Points(5)>>),
                   Cmd("line", <<x_center, y_start, x_center, y_start + grid_height>>),
                   Cmd("line", <<x_start, y_center, x_start + grid_width, y_center>>),
                   Cmd("setStrokeColor", <<"black">>),
                   Cmd("setLineWidth", <<Points(1)>>)>>
            ELSE <<>>
        diagonals ==
            <<Cmd("setLineWidth", <<(self.diagonal_thickness.milli * 72)>>),
              Cmd("line", <<x_start, y_start, x_start + grid_width, y_start + grid_height>>),
              Cmd("line", <<x_start + grid_width, y_start, x_start, y_start + grid_height>>)>>
        scope_adjustment_text_size == Points(72)
        dx == (x_center - x_start) \div 2
        dy == (y_center - y_start) \div 2
        labels ==
            IF self.scope_adjustment_text
            THEN DrawCenteredText(<<"R/U">>, x_center - dx, y_center - dy,
                                  scope_adjustment_text_size, "gray")
                 \o DrawCenteredText(<<"R/D">>, x_center - dx, y_center + dy,
                                     scope_adjustment_text_size, "gray")
                 \o DrawCenteredText(<<"L/U">>, x_center + dx, y_center - dy,
                                     scope_adjustment_text_size, "gray")
                 \o DrawCenteredText(<<"L/D">>, x_center + dx, y_center + dy,
                                     scope_adjustment_text_size, "gray")
            ELSE <<>>
    IN  IF grid_size = 0
        THEN [cmds |-> head,
              status |-> "raised",
              value |-> <<"ZeroDivisionError">>,
              frame |-> [grid_size |-> grid_size,
                         available_width |-> available_width,
                         available_height |-> available_height]]
        ELSE [cmds |-> head \o quadrant
                       \o HorizontalLines(num_rows, x_start, y_start, grid_size, grid_width)
                       \o VerticalLines(num_cols, x_start, y_start, grid_size, grid_height)
                       \o diagonals \o labels \o <<Cmd("save", <<>>)>>,
              status |-> "returned",
              value |-> None,
              frame |-> [grid_size |-> grid_size,
                         available_width |-> available_width,
                         available_height |-> available_height,
                         num_rows |-> num_rows,
                         num_cols |-> num_cols,
                         grid_width |-> grid_width,
                         grid_height |-> grid_height,
                         x_start |-> x_start,
                         y_start |-> y_start,
                         x_center |-> x_center,
                         y_center |-> y_center]]

\* os.getcwd(): the directory the process runs in
Cwd == <<"/", "a", "p", "p">>

\* the file a relative name denotes (the canvas opens self.filename relative to the cwd)
AbsPath(name) == Cwd \o <<"/">> \o name

\* self.pdf.save() has been called
Saved(pdf) == \E i \in 1..Len(pdf.cmds) : pdf.cmds[i].op = "save"

----------------------------------------------------------------------------
(* The state before anything has run *)

NoTarget == [none |-> TRUE]
NoRequest == [via |-> "nobody"]
NoFrame == [none |-> TRUE]
NoMessage == [kind |-> "none", text |-> <<>>]

MaxClients == 2

Clients == 1..MaxClients

NoResponse == [handler |-> "none", status |-> 0, filename |-> None]

Init ==
    /\ target = NoTarget
    /\ request = NoRequest
    /\ result = [status |-> "no_target", value |-> None]
    /\ frame = NoFrame
    /\ files = {}
    /\ filename = Undefined
    /\ response = [c \in Clients |-> NoResponse]
    /\ lastCreated = [c \in Clients |-> None]
    /\ message = NoMessage

----------------------------------------------------------------------------
(* pdf_gen.py run as a program: one Target is constructed, then create_target *)
(* is called on it once (lines 235-241), here for any keyword arguments.      *)

\* one optional keyword argument: absent, or one of the values
Opt(key, values) == {NoArg} \cup {key :> v : v \in values}

ScriptKwargs ==
    {a @@ b @@ c @@ d @@ e @@ f @@ g :
        a \in Opt("yards", {FloatOf(100000), FloatOf(1000000), FloatOf(3000000), FloatOf(0), FloatOf(-100000)}),
        b \in Opt("MOA", {FloatOf(500), FloatOf(0), FloatOf(-250)}),
        c \in Opt("page_size", {<<Points(792), Points(612)>>, <<Points(612), Points(612)>>}),
        d \in Opt("margin", {Points(0), Points(320)}),
        e \in Opt("scope_adjustment_text", {FALSE}),
        f \in Opt("flask", {TRUE}),
        g \in Opt("filename", {Chars_test_pdf})}

\* target = Target(**kwargs)
NewTarget(kwargs) ==
    /\ result.status = "no_target"
    /\ target' = TargetInit(kwargs)
    /\ request' = [via |-> "script", kwargs |-> kwargs]
    /\ result' = [status |-> "not_called", value |-> None]
    /\ UNCHANGED <<frame, files, filename, response, lastCreated, message>>

\* target.create_target()
CallCreateTarget ==
    /\ result.status = "not_called"
    /\ LET r == CreateTarget(target)
       IN  /\ target' = [target EXCEPT !.pdf.cmds = r.cmds]
           /\ result' = [status |-> r.status, value |-> r.value]
           /\ frame' = r.frame
           /\ files' = IF r.status = "returned"
                       THEN files \cup {AbsPath(target.pdf.filename)}
                       ELSE files
    /\ UNCHANGED <<request, filename, response, lastCreated, message>>

Next ==
    \/ \E kwargs \in ScriptKwargs : NewTarget(kwargs)
    \/ CallCreateTarget

Spec == Init /\ [][Next]_vars

----------------------------------------------------------------------------
(* tkinter_target_generator.py *)

\* str(v) for None or a str
StrOf(v) == IF v = None THEN <<"N", "o", "n", "e">> ELSE v

\* what the user may have typed in an entry
YardsEntries == {<<"1", "0", "0">>, <<"3", "0", "0", "0">>, <<"0">>, <<"-", "1", "0", "0">>, <<>>}
MoaEntries == {<<"0", ".", "2", "5">>, <<"1">>}
DiagonalEntries == {<<"0", ".", "1", "2", "5">>, <<".", "5">>}

\* TargetGeneratorApp.generate_target: the button's command.  Everything from
\* the first float() to the message box is inside the try; any exception
\* ends in showerror.
GenerateTarget(yards, moa, diagonal_thickness, scope_adjustment) ==
    LET y == ParseFloat(yards)
        m == ParseFloat(moa)
        d == ParseFloat(diagonal_thickness)
        t == TargetInit(("yards" :> y.value) @@ ("moa" :> m.value)
                        @@ ("diagonal_thickness" :> d.value)
                        @@ ("scope_adjustment_text" :> scope_adjustment)
                        @@ ("flask" :> FALSE))
        r == CreateTarget(t)
    IN  IF ~(y.ok /\ m.ok /\ d.ok)
        THEN /\ message' = [kind |-> "showerror",
                            text |-> <<"Failed to generate target: ", <<"ValueError">>>>]
             /\ UNCHANGED <<target, request, result, frame, files>>
        ELSE /\ target' = [t EXCEPT !.pdf.cmds = r.cmds]
             /\ request' = [via |-> "gui", yards |-> yards, moa |-> moa,
                            diagonal_thickness |-> diagonal_thickness,
                            scope_adjustment |-> scope_adjustment]
             /\ result' = [status |-> r.status, value |-> r.value]
             /\ frame' = r.frame
             /\ files' = IF r.status = "returned"
                         THEN files \cup {AbsPath(t.pdf.filename)}
                         ELSE files
             /\ message' = IF r.status = "returned"
                           THEN [kind |-> "showinfo",
                                 text |-> <<"Target saved as ", StrOf(r.value)>>]
                           ELSE [kind |-> "showerror",
                                 text |-> <<"Failed to generate target: ", r.value>>]

NextGui ==
    \E yards \in YardsEntries, moa \in MoaEntries,
       diagonal_thickness \in DiagonalEntries, scope_adjustment \in BOOLEAN :
        /\ GenerateTarget(yards, moa, diagonal_thickness, scope_adjustment)
        /\ UNCHANGED <<filename, response, lastCreated>>

SpecGui == Init /\ [][NextGui]_vars

----------------------------------------------------------------------------
(* flask_target_generator.py *)

Lower == {"a", "b", "c", "d", "e", "f", "g", "h", "i", "j", "k", "l", "m",
          "n", "o", "p", "q", "r", "s", "t", "u", "v", "w", "x", "y", "z"}
Upper == {"A", "B", "C", "D", "E", "F", "G", "H", "I", "J", "K", "L", "M",
          "N", "O", "P", "Q", "R", "S", "T", "U", "V", "W", "X", "Y", "Z"}

\* re.sub(r"[^a-zA-Z0-9\-_\.]", "", name)
Sanitize(name) ==
    SelectSeq(name, LAMBDA ch : ch \in Lower \cup Upper \cup DigitSet \cup {"-", "_", "."})

\* the segments of a path: its maximal runs of characters other than "/"
RECURSIVE Segments(_)
Segments(path) ==
    IF path = <<>> THEN <<>>
    ELSE LET slashes == {i \in 1..Len(path) : path[i] = "/"}
             cut == IF slashes = {} THEN Len(path) + 1
                    ELSE CHOOSE i \in slashes : \A j \in slashes : i <= j
             first == SubSeq(path, 1, cut - 1)
             rest == Segments(SubSeq(path, cut + 1, Len(path)))
         IN  IF first = <<>> THEN rest ELSE <<first>> \o rest

\* the segments with "." dropped and "name/.." cancelled
RECURSIVE Resolve(_, _)
Resolve(done, todo) ==
    IF todo = <<>> THEN done
    ELSE IF Head(todo) = <<".">> THEN Resolve(done, Tail(todo))
    ELSE IF Head(todo) = <<".", ".">> /\ done # <<>>
         THEN Resolve(SubSeq(done, 1, Len(done) - 1), Tail(todo))
    ELSE IF Head(todo) = <<".", ".">> THEN Resolve(done, Tail(todo))
    ELSE Resolve(Append(done, Head(todo)), Tail(todo))

RECURSIVE JoinSegments(_)
JoinSegments(segs) ==
    IF segs = <<>> THEN <<>> ELSE <<"/">> \o Head(segs) \o JoinSegments(Tail(segs))

\* os.path.normpath of an absolute path
NormPath(path) ==
    LET segs == Resolve(<<>>, Segments(path))
    IN  IF segs = <<>> THEN <<"/">> ELSE JoinSegments(segs)

\* werkzeug's safe_join(directory, "static", name) for a name without "/":
\* None for "..", otherwise the three joined with "/"
SafeJoin(directory, sub, name) ==
    IF name = <<".", ".">> THEN None
    ELSE directory \o <<"/">> \o sub \o <<"/">> \o name

\* the path delete_pdf removes for a value of the global, or None
DeletePath(name) ==
    LET sanitized_filename == Sanitize(name)
        filepath == SafeJoin(Cwd, Chars_static, sanitized_filename)
    IN  IF filepath = None THEN None
        ELSE IF ~StartsWith(NormPath(filepath), NormPath(Cwd)) THEN None
        ELSE filepath

Reply(handler, status, name) == [handler |-> handler, status |-> status, filename |-> name]

\* the fields a client may post
Forms ==
    {a @@ b @@ c :
        a \in Opt("moa", {<<".", "5">>}),
        b \in Opt("yardage", {<<"2", "0", "0">>, <<>>}),
        c \in Opt("scope_adjustment_text", {<<"o", "n">>})}

\* bool(v) for a str v
Bool(v) == v # <<>>

\* @app.route("/"): download_page
DownloadPage(c) ==
    /\ response' = [response EXCEPT ![c] = Reply("download_page", 200, None)]
    /\ UNCHANGED <<target, request, result, frame, files, filename, lastCreated, message>>

\* @app.route("/create_target"): run_function.  A GET falls off the end of the
\* function, and a field float() rejects raises ValueError: both answer 500
\* and leave the global as it was.
RunFunction(c, method, form) ==
    LET moa0 == Get(form, "moa", <<"0", ".", "2", "5">>)
        yardage == Get(form, "yardage", <<"1", "0", "0">>)
        diagonal_thickness0 == Get(form, "diagonal_thickness", <<"0", ".", "1", "2", "5">>)
        \* bool(request.form.get("scope_adjustment_text", False))
        scope_adjustment_text ==
            IF "scope_adjustment_text" \in DOMAIN form
            THEN Bool(form["scope_adjustment_text"]) ELSE FALSE
        moa == IF StartsWith(moa0, <<".">>) THEN <<"0">> \o moa0 ELSE moa0
        diagonal_thickness ==
            IF StartsWith(diagonal_thickness0, <<".">>)
            THEN <<"0">> \o diagonal_thickness0 ELSE diagonal_thickness0
        y == ParseFloat(yardage)
        m == ParseFloat(moa)
        d == ParseFloat(diagonal_thickness)
        t == TargetInit(("yards" :> y.value) @@ ("moa" :> m.value)
                        @@ ("diagonal_thickness" :> d.value)
                        @@ ("scope_adjustment_text" :> scope_adjustment_text)
                        @@ ("flask" :> TRUE))
    IN  IF method # "POST" \/ ~(y.ok /\ m.ok /\ d.ok)
        THEN /\ response' = [response EXCEPT ![c] = Reply("run_function", 500, None)]
             /\ UNCHANGED <<target, request, result, frame, files, filename,
                            lastCreated, message>>
        ELSE /\ target' = t
             /\ request' = [via |-> "flask", client |-> c, form |-> form, moa |-> moa]
             /\ result' = [status |-> "not_called", value |-> None]
             /\ filename' = t.filename
             /\ lastCreated' = [lastCreated EXCEPT ![c] = t.filename]
             /\ response' = [response EXCEPT ![c] = Reply("run_function", 302, t.filename)]
             /\ UNCHANGED <<frame, files, message>>

\* @app.route("/pdf"): view_pdf renders pdf.html with the global
ViewPdf(c) ==
    /\ response' = [response EXCEPT ![c] =
                        IF filename = Undefined THEN Reply("view_pdf", 500, None)
                        ELSE Reply("view_pdf", 200, filename)]
    /\ UNCHANGED <<target, request, result, frame, files, filename, lastCreated, message>>

\* @app.route("/delete_pdf"): delete_pdf.  The reply keeps the value of the
\* global the handler read.
DeletePdf(c) ==
    /\ IF filename = Undefined
       THEN /\ response' = [response EXCEPT ![c] = Reply("delete_pdf", 500, None)]
            /\ UNCHANGED files
       ELSE IF DeletePath(filename) = None
       THEN /\ response' = [response EXCEPT ![c] = Reply("delete_pdf", 400, filename)]
            /\ UNCHANGED files
       ELSE /\ files' = files \ {DeletePath(filename)}
            /\ response' = [response EXCEPT ![c] = Reply("delete_pdf", 204, filename)]
    /\ UNCHANGED <<target, request, result, frame, filename, lastCreated, message>>

\* A document an earlier render left in static/: Target(yards=100.0,
\* flask=True).create_target() writes it.
ExistingDocument ==
    AbsPath(TargetInit(("yards" :> FloatOf(100000)) @@ ("flask" :> TRUE)).filename)

InitWeb ==
    /\ target = NoTarget
    /\ request = NoRequest
    /\ result = [status |-> "no_target", value |-> None]
    /\ frame = NoFrame
    /\ files \in {{}, {ExistingDocument}}
    /\ filename = Undefined
    /\ response = [c \in Clients |-> NoResponse]
    /\ lastCreated = [c \in Clients |-> None]
    /\ message = NoMessage

NextWeb ==
    \/ \E c \in Clients : DownloadPage(c)
    \/ \E c \in Clients : RunFunction(c, "GET", NoArg)
    \/ \E c \in Clients, form \in Forms : RunFunction(c, "POST", form)
    \/ \E c \in Clients : ViewPdf(c)
    \/ \E c \in Clients : DeletePdf(c)

SpecWeb == InitWeb /\ [][NextWeb]_vars

----------------------------------------------------------------------------
(* What the claims speak of *)

\* create_target has been called on the target and has ended
Called == result.status \in {"returned", "raised"}

\* create_target ran to its end
Completed == result.status = "returned"

PageWidth == target.page_size[1]
PageHeight == target.page_size[2]
PrintableWidth == PageWidth - 2 * target.margin
PrintableHeight == PageHeight - 2 * target.margin
MinPage == IF PageWidth <= PageHeight THEN PageWidth ELSE PageHeight

\* n is the largest even integer with n * cell <= width, for cell > 0
LargestEvenCount(n, width, cell) ==
    /\ n % 2 = 0
    /\ n * cell <= width
    /\ (n + 2) * cell > width

Inside(start, extent, page, margin) ==
    /\ margin <= start
    /\ start + extent <= page - margin

\* C2: for every page size, every margin with 2*margin < min(pageWidth,
\* pageHeight) and every positive cell size, the grid rectangle lies inside
\* the printable area on both axes.
C2_GridInsidePrintableArea ==
    (Completed /\ frame.grid_size > 0 /\ 2 * target.margin < MinPage) =>
        /\ Inside(frame.x_start, frame.grid_width, PageWidth, target.margin)
        /\ Inside(frame.y_start, frame.grid_height, PageHeight, target.margin)

\* C2, amended: under the same conditions the grid rectangle lies inside the
\* printable area on the x axis for every page, and on the y axis when
\* pageWidth <= pageHeight (a portrait or square page).
C2_GridInsidePrintableAreaPortrait ==
    (Completed /\ frame.grid_size > 0 /\ 2 * target.margin < MinPage) =>
        /\ Inside(frame.x_start, frame.grid_width, PageWidth, target.margin)
        /\ PageWidth <= PageHeight =>
               Inside(frame.y_start, frame.grid_height, PageHeight, target.margin)

\* C2 witness: a completed render of a portrait page with a grid of at least
\* two cells that leaves less than one cell of the printable width unused.
C2_Witness ==
    /\ Completed
    /\ frame.grid_size > 0
    /\ 2 * target.margin < MinPage
    /\ PageWidth < PageHeight
    /\ frame.num_rows >= 2
    /\ PrintableWidth - frame.grid_width < frame.grid_size

\* C3: a render whose distance or angular increment is zero or negative is
\* rejected with InvalidParameter before any command reaches the canvas, and
\* no document is saved.
C3_NonPositiveRejectedBeforeDrawing ==
    (Called /\ (target.yards.milli <= 0 \/ target.MOA.milli <= 0)) =>
        /\ result.status = "raised"
        /\ result.value = <<"InvalidParameter">>
        /\ target.pdf.cmds = <<>>
        /\ AbsPath(target.pdf.filename) \notin files

\* the canvas commands of the target, and their names in order
Cmds == target.pdf.cmds
Ops == [i \in 1..Len(Cmds) |-> Cmds[i].op]

\* n copies of x; none when n <= 0
Repeat(x, n) == [i \in 1..n |-> x]

\* the commands of one centred text
TextOps == <<"setFont", "setFillColor", "stringWidth", "drawString">>

\* the caption is drawn: a drawString of the text that names the MOA grid
CaptionDrawn ==
    \E i \in 1..Len(Cmds) :
        /\ Cmds[i].op = "drawString"
        /\ Len(Cmds[i].args[3]) = 6
        /\ Cmds[i].args[3][2] = " MOA grid ("

\* the line commands, in the order issued: the two quadrant lines come first
\* when the overlay is on, the two diagonals come last, the grid lines between
LineIdx == {i \in 1..Len(Cmds) : Cmds[i].op = "line"}
QuadrantLines == IF target.scope_adjustment_text THEN 2 ELSE 0
GridLineCount == Cardinality(LineIdx) - 2 - QuadrantLines

\* the i-th command is a line whose end points coincide
ZeroLength(i) ==
    /\ Cmds[i].args[1] = Cmds[i].args[3]
    /\ Cmds[i].args[2] = Cmds[i].args[4]

\* the stroke colour and the line width in force when the i-th command is issued
StrokeColorAt(i) ==
    LET set == {j \in 1..(i - 1) : Cmds[j].op = "setStrokeColor"}
    IN  Cmds[CHOOSE j \in set : \A k \in set : k <= j].args[1]
LineWidthAt(i) ==
    LET set == {j \in 1..(i - 1) : Cmds[j].op = "setLineWidth"}
    IN  Cmds[CHOOSE j \in set : \A k \in set : k <= j].args[1]

\* save() was called exactly once, as the last command
SavedOnceAtEnd ==
    /\ Cardinality({i \in 1..Len(Cmds) : Cmds[i].op = "save"}) = 1
    /\ Cmds[Len(Cmds)].op = "save"

ExpectedOps ==
    <<"setTitle", "setStrokeColor", "setLineWidth", "setLineCap",
      "setFillColor", "setFont">> \o TextOps
    \o (IF target.scope_adjustment_text
        THEN <<"setStrokeColor", "setLineWidth", "line", "line",
               "setStrokeColor", "setLineWidth">>
        ELSE <<>>)
    \o Repeat("line", frame.num_rows + 1) \o Repeat("line", frame.num_cols + 1)
    \o <<"setLineWidth", "line", "line">>
    \o (IF target.scope_adjustment_text
        THEN TextOps \o TextOps \o TextOps \o TextOps ELSE <<>>)
    \o <<"save">>

\* where the overlay, the grid lines and the diagonals start
QuadrantAt == 6 + Len(TextOps) + 1
GridAt == IF target.scope_adjustment_text THEN QuadrantAt + 6 ELSE QuadrantAt
DiagonalAt == GridAt + GridLineCount

\* the fixed order of the commands of a completed run
FixedOrder ==
    /\ Ops = ExpectedOps
    /\ Cmds[2].args = <<"black">> /\ Cmds[3].args = <<Points(1)>>
    /\ target.scope_adjustment_text =>
           /\ Cmds[QuadrantAt].args = <<"gray">>
           /\ Cmds[QuadrantAt + 1].args = <<Points(5)>>
           /\ Cmds[QuadrantAt + 4].args = <<"black">>
           /\ Cmds[QuadrantAt + 5].args = <<Points(1)>>
    /\ GridLineCount = (frame.num_rows + 1) + (frame.num_cols + 1)
    /\ \A i \in GridAt..(DiagonalAt - 1) :
           /\ StrokeColorAt(i) = "black"
           /\ LineWidthAt(i) = Points(1)
           /\ i < GridAt + frame.num_rows + 1 => Cmds[i].args[2] = Cmds[i].args[4]
           /\ i >= GridAt + frame.num_rows + 1 => Cmds[i].args[1] = Cmds[i].args[3]
    /\ Cmds[DiagonalAt].args = <<target.diagonal_thickness.milli * 72>>
    /\ target.scope_adjustment_text =>
           \A k \in 0..3 : Cmds[DiagonalAt + 3 + 4 * k + 1].args = <<"gray">>
    /\ SavedOnceAtEnd

\* C5: in every run of create_target the canvas commands are issued in the
\* fixed order: title; default stroke; caption; with the overlay, two gray
\* width-5 lines and the stroke restored; num_rows+1 horizontal and num_cols+1
\* vertical lines in black width 1; the diagonal width and the two diagonals;
\* with the overlay, four gray labels; save, once and last.
C5_CommandsInFixedOrder == Called => (Completed /\ FixedOrder)

\* a render the data model admits: positive distance and angular increment,
\* and a margin that leaves a printable area
ValidSpec ==
    /\ target.yards.milli > 0
    /\ target.MOA.milli > 0
    /\ target.margin >= 0
    /\ 2 * target.margin < MinPage

\* The fixed order of C5 on the renders the data model admits.
FixedOrderOfValidRenders == (Called /\ ValidSpec) => (Completed /\ FixedOrder)

\* the name _filename derives from a distance and an angular increment
DerivedName(yards, moa) ==
    Replace(PyStr(yards), ".", "-") \o Chars_yards
    \o Replace(PyStr(moa), ".", "-") \o Chars_moa_pdf

\* C6: the Target built for a GUI or web request uses the angular increment
\* the caller submitted: its MOA is the submitted moa, its filename embeds
\* str(moa) with "." replaced by "-", and its cell size is computed from it.
C6_TargetUsesSubmittedMoa ==
    request.via \in {"gui", "flask"} =>
        LET moa == ParseFloat(request.moa).value
            name == DerivedName(target.yards, moa)
        IN  /\ target.MOA = moa
            /\ target.filename =
                   IF target.flask THEN Chars_static \o <<"/">> \o name ELSE name
            /\ Completed =>
                   frame.grid_size = MinuteOfAngle([yards |-> target.yards, MOA |-> moa])

\* C7: create_target, when it completes, returns the derived document name,
\* the path the canvas saved to, so the name in the GUI's "Target saved as"
\* message is the name of the file that was written.
C7_CreateTargetReturnsName ==
    Completed =>
        /\ result.value = target.filename
        /\ AbsPath(target.filename) \in files
        /\ request.via = "gui" =>
               /\ message.kind = "showinfo"
               /\ message.text = <<"Target saved as ", target.filename>>

\* C8: whenever run_function redirects a client to the PDF view for a
\* filename, create_target has run through to pdf.save for the Target of that
\* request, and the document of that name is on disk.
C8_RedirectOnlyAfterSave ==
    /\ request.via = "flask" => (Completed /\ Saved(target.pdf))
    /\ \A c \in Clients :
           (response[c].handler = "run_function" /\ response[c].status = 302) =>
               AbsPath(response[c].filename) \in files

\* C9: the filename view_pdf renders for a client, and delete_pdf acts on for
\* a client, is the one that client's latest create_target request produced,
\* whatever the other clients have requested.
C9_ClientSeesOwnFilename ==
    \A c \in Clients :
        (/\ response[c].handler \in {"view_pdf", "delete_pdf"}
         /\ response[c].status \in {200, 204}
         /\ lastCreated[c] # None) =>
            response[c].filename = lastCreated[c]

\* C10: after a create_target request has produced filename F and while a
\* document exists at F, a delete_pdf request removes exactly that document:
\* the path it computes is the path the Target's canvas writes to, it answers
\* 204 and the file is gone.
C10_DeleteRemovesTheDocument ==
    [][\A c \in Clients :
           (/\ DeletePdf(c)
            /\ filename # Undefined
            /\ AbsPath(filename) \in files) =>
               /\ DeletePath(filename) = AbsPath(filename)
               /\ response'[c].status = 204
               /\ AbsPath(filename) \notin files']_vars

====
